---- MODULE Spec2Model ----
(***************************************************************************)
(* Model of the fetch pipeline of GitLang Detector (src/src/App.jsx and    *)
(* its simpler variant src/unnamed/part_000): fetchData with its profile   *)
(* request, its paginated repository requests, its error classification    *)
(* and its aggregation, together with the handlers that start it and the   *)
(* React state it writes.                                                   *)
(*                                                                         *)
(* Representation.  A JavaScript value that may be null is Null (<<>>) or  *)
(* Some(v) (<<v>>).  An absent numeric field (undefined) is Absent.  A     *)
(* list of repository records is kept run-length encoded: a sequence of    *)
(* runs [rec, n], n >= 1, standing for n consecutive copies of rec; a page *)
(* of 100 records is then one or two runs, and every operator below        *)
(* computes on the runs what the code computes on the expanded array.      *)
(***************************************************************************)
EXTENDS Integers, Sequences, FiniteSets, TLC

(***************************************************************************)
(* Program constants                                                       *)
(***************************************************************************)
perPage == 100

maxPages == 10

topCount == 5

(***************************************************************************)
(* Bounds of the model                                                     *)
(***************************************************************************)
\* invocations of fetchData the environment may start in the overlapping scenario
MaxCalls == 2

\* page numbers up to which the source may answer with any page of RichPages
\* when one invocation runs alone
RichDepth == 2

\* the longest page that is written out record by record
MaxShort == 2

\* full pages the source holds per user in the overlapping scenario
ShallowDepth == 1

(***************************************************************************)
(* JavaScript values                                                       *)
(***************************************************************************)
Null == <<>>

Some(v) == <<v>>

Absent == -1

\* x || 0 on a count: undefined (and 0) give 0
OrZero(x) == IF x = Absent THEN 0 ELSE x

\* truthiness of a nullable string: null and "" are falsy
Truthy(s) == s # Null /\ s[1] # ""

\* String.prototype.trim on a string kept as a sequence of characters
RECURSIVE TrimStart(_)
TrimStart(s) ==
    IF s # <<>> /\ Head(s) = " " THEN TrimStart(Tail(s)) ELSE s

RECURSIVE TrimEnd(_)
TrimEnd(s) ==
    IF s # <<>> /\ s[Len(s)] = " " THEN TrimEnd(SubSeq(s, 1, Len(s) - 1)) ELSE s

trim(s) == TrimEnd(TrimStart(s))

\* the validation as mutated: the argument is not trimmed
InvalidNoTrim(u) == IF u = Null THEN TRUE ELSE u[1] = <<>>

\* !userToFetch?.trim(): a null argument, and a string that trims to "", fail
Invalid(u) == IF u = Null THEN TRUE ELSE trim(u[1]) = <<>>

(***************************************************************************)
(* Error messages (the texts of the thrown Errors)                         *)
(***************************************************************************)
MsgValidation == "Please enter a GitHub username first."

MsgNotFound == "User not found. Check the username."

MsgRateLimit == "API Rate limit exceeded. Wait a while or add a GitHub Token below."

MsgBadToken == "Invalid GitHub Token."

MsgNoRepos == "No public repositories found for this user."

MsgNoLang == "Repositories found, but no language data detected."

MsgApi(status, statusText) ==
    "GitHub API Error: " \o ToString(status) \o " " \o statusText

\* response.ok as mutated: the status is never looked at
IsOkAlways(status) == TRUE

\* response.ok
IsOk(status) == status >= 200 /\ status <= 299

\* the message of the Error thrown for a response that is not ok, as mutated:
\* a 401 falls through to the generic message
ClassifyNo401(status, statusText) ==
    IF status = 404 THEN MsgNotFound
    ELSE IF status = 403 THEN MsgRateLimit
    ELSE MsgApi(status, statusText)

\* the message of the Error thrown for a profile response that is not ok
ClassifyUser(status, statusText) ==
    IF status = 404 THEN MsgNotFound
    ELSE IF status = 403 THEN MsgRateLimit
    ELSE IF status = 401 THEN MsgBadToken
    ELSE MsgApi(status, statusText)

\* the message of the Error thrown for a page response that is not ok
ClassifyPage(status, statusText) ==
    IF status = 404 THEN MsgNotFound
    ELSE IF status = 403 THEN MsgRateLimit
    ELSE IF status = 401 THEN MsgBadToken
    ELSE MsgApi(status, statusText)

(***************************************************************************)
(* Arrays of repository records, run-length encoded                        *)
(***************************************************************************)
Repo(name, language, stars, forks) ==
    [name |-> name, language |-> language,
     stargazers_count |-> stars, forks_count |-> forks]

Run(r, n) == [rec |-> r, n |-> n]

\* Array.prototype.length
RECURSIVE length(_)
length(runs) ==
    IF runs = <<>> THEN 0 ELSE Head(runs).n + length(Tail(runs))

\* Array.prototype.concat as mutated: the page is put in front
concatFront(all, repos) == repos \o all

\* allRepos.concat(repos)
concat(all, repos) == all \o repos

\* the loop's exit test as mutated: no cap on the page counter
lastPageNoCap(repos, page) == length(repos) < perPage

\* the loop's exit test as mutated: a page that is not full does not stop it
lastPageCapOnly(repos, page) == page >= maxPages

\* the loop's exit test as mutated: the cap is off by one
lastPageLateCap(repos, page) == length(repos) < perPage \/ page > maxPages

\* repos.length < perPage || page >= 10
lastPage(repos, page) == length(repos) < perPage \/ page >= maxPages

(***************************************************************************)
(* Aggregation                                                             *)
(***************************************************************************)
InSeq(x, s) == \E k \in DOMAIN s : s[k] = x

\* hasLang after the forEach, as mutated: any non-null language counts
hasLangNonNull(runs) == \E k \in DOMAIN runs : runs[k].rec.language # Null

\* hasLang after the forEach
hasLang(runs) == \E k \in DOMAIN runs : Truthy(runs[k].rec.language)

\* Object.keys(langMap): the languages in the order the forEach first met them
RECURSIVE langKeys(_, _)
langKeys(runs, keys) ==
    IF runs = <<>> THEN keys
    ELSE LET l == Head(runs).rec.language
         IN  langKeys(Tail(runs),
                      IF Truthy(l) /\ ~InSeq(l[1], keys)
                      THEN Append(keys, l[1]) ELSE keys)

\* langMap[lang] as mutated: the entry is created but never incremented
langMapNoIncrement(runs, lang) ==
    IF \E k \in DOMAIN runs : runs[k].rec.language = Some(lang) THEN 1 ELSE 0

\* langMap[lang] after the forEach
RECURSIVE langMap(_, _)
langMap(runs, lang) ==
    IF runs = <<>> THEN 0
    ELSE (IF Head(runs).rec.language = Some(lang) THEN Head(runs).n ELSE 0)
         + langMap(Tail(runs), lang)

\* the insertion as mutated: x goes in front of the elements of equal key,
\* which makes the sort unstable
RECURSIVE InsertDescBefore(_, _)
InsertDescBefore(x, s) ==
    IF s = <<>> THEN <<x>>
    ELSE IF Head(s).key > x.key
    THEN <<Head(s)>> \o InsertDescBefore(x, Tail(s))
    ELSE <<x>> \o s

\* Array.prototype.sort with (a, b) => b.key - a.key: stable, descending.
\* The argument is a sequence of [key, val]; InsertDesc puts x behind every
\* element whose key is not smaller.
RECURSIVE InsertDesc(_, _)
InsertDesc(x, s) ==
    IF s = <<>> THEN <<x>>
    ELSE IF Head(s).key >= x.key THEN <<Head(s)>> \o InsertDesc(x, Tail(s))
    ELSE <<x>> \o s

RECURSIVE SortDescFrom(_, _)
SortDescFrom(s, acc) ==
    IF s = <<>> THEN acc ELSE SortDescFrom(Tail(s), InsertDesc(Head(s), acc))

\* the sort as mutated: the array is left in its input order
sortDescNone(s) == s

sortDesc(s) == SortDescFrom(s, <<>>)

Vals(s) == [k \in DOMAIN s |-> s[k].val]

\* processedData as mutated: the histogram is built after the in-place sort
\* by stars, on the reordered array
processedDataAfterSort(runs) ==
    LET sorted == Vals(sortDesc([k \in DOMAIN runs |->
                         [key |-> OrZero(runs[k].rec.stargazers_count),
                          val |-> runs[k]]]))
        keys == langKeys(sorted, <<>>)
    IN  Vals(sortDesc([k \in DOMAIN keys |->
                         [key |-> langMap(sorted, keys[k]),
                          val |-> [name |-> keys[k],
                                   value |-> langMap(sorted, keys[k])]]]))

\* processedData: Object.keys(langMap).map(...).sort(...)
processedData(runs) ==
    LET keys == langKeys(runs, <<>>)
    IN  Vals(sortDesc([k \in DOMAIN keys |->
                         [key |-> langMap(runs, keys[k]),
                          val |-> [name |-> keys[k],
                                   value |-> langMap(runs, keys[k])]]]))

\* allRepos.reduce((sum, repo) => sum + (repo.stargazers_count || 0), 0)
RECURSIVE totalStars(_)
totalStars(runs) ==
    IF runs = <<>> THEN 0
    ELSE Head(runs).n * OrZero(Head(runs).rec.stargazers_count)
         + totalStars(Tail(runs))

\* allRepos.reduce((sum, repo) => sum + (repo.forks_count || 0), 0)
RECURSIVE totalForks(_)
totalForks(runs) ==
    IF runs = <<>> THEN 0
    ELSE Head(runs).n * OrZero(Head(runs).rec.forks_count)
         + totalForks(Tail(runs))

\* the rounding as mutated: Math.floor(a / b)
roundDown(a, b) == a \div b

\* Math.round(a / b) for a >= 0, b > 0: halves round up
round(a, b) == (2 * a + b) \div (2 * b)

\* Math.round(totalStars / allRepos.length)
avgStars(runs) == round(totalStars(runs), length(runs))

repoStatsOf(runs) ==
    [totalStars |-> totalStars(runs), totalForks |-> totalForks(runs),
     avgStars |-> avgStars(runs)]

\* Array.prototype.slice(0, k), written out record by record
RECURSIVE slice(_, _)
slice(runs, k) ==
    IF k = 0 \/ runs = <<>> THEN <<>>
    ELSE LET m == IF Head(runs).n < k THEN Head(runs).n ELSE k
         IN  [j \in 1..m |-> Head(runs).rec] \o slice(Tail(runs), k - m)

\* the object the final map builds for a record (description and url are
\* passed through and left out of the model's records)
topEntry(repo) ==
    [name |-> repo.name, stars |-> repo.stargazers_count,
     forks |-> repo.forks_count, language |-> repo.language]

\* top5Repos: allRepos.sort(by stars, descending).slice(0, 5).map(...)
top5Repos(runs) ==
    LET sorted == Vals(sortDesc([k \in DOMAIN runs |->
                         [key |-> OrZero(runs[k].rec.stargazers_count),
                          val |-> runs[k]]]))
        top == slice(sorted, topCount)
    IN  [k \in DOMAIN top |-> topEntry(top[k])]

(***************************************************************************)
(* What the source may answer                                              *)
(***************************************************************************)
Alpha == Repo("alpha", Some("Go"), 10, 3)

Beta == Repo("beta", Some("Rust"), 20, Absent)

Gamma == Repo("gamma", Null, 1, 0)

Delta == Repo("delta", Some(""), Absent, 2)

Eps == Repo("eps", Some("Rust"), 10, 1)

Recs == {Alpha, Beta, Gamma, Delta, Eps}

\* pages of at most MaxShort records, written out
ShortPages ==
    UNION {[1..m -> {Run(r, 1) : r \in Recs}] : m \in 0..MaxShort}

\* pages one record short of per_page
NearPages == {<<Run(Alpha, perPage - 1)>>, <<Run(Gamma, 1), Run(Eps, perPage - 2)>>}

\* pages of exactly per_page records
FullPages ==
    {<<Run(Alpha, perPage)>>, <<Run(Gamma, perPage)>>,
     <<Run(Gamma, 1), Run(Beta, perPage - 1)>>}

\* a page of a source that ignores per_page
OverPages == {<<Run(Alpha, perPage + 1)>>}

RichPages == ShortPages \cup NearPages \cup FullPages \cup OverPages

\* what the source may answer beyond page RichDepth
PlainPages == {<<>>, <<Run(Alpha, perPage - 1)>>, <<Run(Alpha, perPage)>>}

\* the bodies a source may send for page p: any page of RichPages up to page
\* src.rich and a page of PlainPages beyond, none of them full beyond page
\* src.depth
PagesAt(p, src) ==
    {b \in (IF p <= src.rich THEN RichPages ELSE PlainPages) :
        p > src.depth => length(b) < perPage}

OkHead == [status |-> 200, statusText |-> "OK"]

FailHeads ==
    {[status |-> 404, statusText |-> "Not Found"],
     [status |-> 403, statusText |-> "Forbidden"],
     [status |-> 401, statusText |-> "Unauthorized"],
     [status |-> 500, statusText |-> "Internal Server Error"],
     [status |-> 304, statusText |-> "Not Modified"]}

Heads == {OkHead} \cup FailHeads

\* the status lines of the source of the overlapping scenario
PlainHeads == {OkHead, [status |-> 403, statusText |-> "Forbidden"]}

\* messages of the TypeError a rejected fetch carries
NetErrors == {"Failed to fetch"}

\* messages of the SyntaxError a rejected json() carries
JsonErrors == {"Unexpected end of JSON input"}

\* the profiles a source may send for a user
Profiles(u, src) == {[login |-> u, followers |-> f] : f \in src.followers}

\* what may stand in the input field or in ?user=
Torvalds == <<"t", "o", "r", "v", "a", "l", "d", "s">>

Names == {<<>>, <<" ">>, <<" ", "a", " ">>}

(***************************************************************************)
(* State                                                                   *)
(***************************************************************************)
VARIABLES
    username,     \* useState(''): the input field
    loading,      \* useState(false)
    error,        \* useState(null)
    data,         \* useState(null): the language list
    userProfile,  \* useState(null) (richer variant only)
    topRepos,     \* useState([]) (richer variant only)
    repoStats,    \* useState({totalStars: 0, ...}) (richer variant only)
    repoCount,    \* useState(0)
    variant,      \* which App is running: "rich" (App.jsx) or "simple" (part_000)
    mounted,      \* the mount effect has run
    inv,          \* the invocations of fetchData: their frames and their histories
    calls,        \* invocations started so far
    quota,        \* invocations the environment starts at most
    source        \* the source: the full pages it holds (depth), the pages up
                  \* to which it varies (rich), its status lines (heads) and
                  \* the follower counts of its profiles (followers)

vars ==
    <<username, loading, error, data, userProfile, topRepos, repoStats,
      repoCount, variant, mounted, inv, calls, quota, source>>

view == <<loading, error, data, userProfile, topRepos, repoStats, repoCount>>

Calls == 1..MaxCalls

\* a frame of fetchData.  pc is the await the invocation is suspended at;
\* reqs, heads, pages, profile and pre are history: the requests issued, the
\* status lines received, the page bodies and the profile decoded, in order,
\* the derived state (topRepos, repoStats, repoCount) the call found, the
\* invocations that had succeeded (prior) and those that had returned (seen)
\* when the call was made, and the invocation's place in the order in which the invocations returned.
Idle ==
    [pc |-> "idle", result |-> "none", user |-> Null, page |-> 0,
     allRepos |-> <<>>, reqs |-> <<>>, heads |-> <<>>, pages |-> <<>>,
     profile |-> Null, pre |-> <<>>, prior |-> {}, seen |-> {},
     rank |-> 0]

UserReq == [kind |-> "user", page |-> 0]

PageReq(p) == [kind |-> "page", page |-> p]

InitState ==
    /\ username = <<>>
    /\ loading = FALSE
    /\ error = Null
    /\ data = Null
    /\ userProfile = Null
    /\ topRepos = <<>>
    /\ repoStats = [totalStars |-> 0, totalForks |-> 0, avgStars |-> 0]
    /\ repoCount = 0
    /\ variant \in {"rich", "simple"}
    /\ mounted = FALSE
    /\ inv = [i \in Calls |-> Idle]
    /\ calls = 0

\* one invocation, against a source that never runs out of full pages
Init ==
    /\ InitState
    /\ quota = 1
    /\ source = [depth |-> maxPages + 1, rich |-> RichDepth,
                 heads |-> Heads, followers |-> {0, 7}]

(***************************************************************************)
(* fetchData up to its first await                                         *)
(***************************************************************************)
\* the invocations that have returned
Returned == {k \in Calls : inv[k].pc = "returned"}

\* the frame once the first request is out: the profile request in the
\* richer variant, the request for page 1 in the simpler one
Started(u) ==
    IF variant = "rich"
    THEN [Idle EXCEPT !.pc = "user", !.user = u, !.reqs = <<UserReq>>]
    ELSE [Idle EXCEPT !.pc = "page", !.user = u, !.page = 1,
                      !.reqs = <<PageReq(1)>>]

\* fetchData as mutated: the start of an attempt leaves the displayed result
\* and profile in place
fetchDataKeepsData(i, u) ==
    /\ calls' = calls + 1
    /\ IF Invalid(u)
       THEN /\ error' = Some(MsgValidation)
            /\ inv' = [inv EXCEPT ![i] =
                         [Idle EXCEPT !.pc = "returned", !.result = "invalid",
                                      !.user = u,
                                      !.pre = <<topRepos, repoStats, repoCount>>,
                                      !.prior = {k \in Calls :
                                                   inv[k].result = "succeeded"},
                                      !.seen = Returned,
                                      !.rank = Cardinality(Returned) + 1]]
            /\ UNCHANGED <<loading, data, userProfile>>
       ELSE /\ loading' = TRUE
            /\ error' = Null
            /\ UNCHANGED <<data, userProfile>>
            /\ inv' = [inv EXCEPT ![i] =
                         [Started(u) EXCEPT
                            !.pre = <<topRepos, repoStats, repoCount>>,
                            !.prior = {k \in Calls :
                                         inv[k].result = "succeeded"},
                            !.seen = Returned]]
    /\ UNCHANGED <<topRepos, repoStats, repoCount, variant, quota, source>>

fetchData(i, u) ==
    /\ calls' = calls + 1
    /\ IF Invalid(u)
       THEN /\ error' = Some(MsgValidation)
            /\ inv' = [inv EXCEPT ![i] =
                         [Idle EXCEPT !.pc = "returned", !.result = "invalid",
                                      !.user = u,
                                      !.pre = <<topRepos, repoStats, repoCount>>,
                                      !.prior = {k \in Calls :
                                                   inv[k].result = "succeeded"},
                                      !.seen = Returned,
                                      !.rank = Cardinality(Returned) + 1]]
            /\ UNCHANGED <<loading, data, userProfile>>
       ELSE /\ loading' = TRUE
            /\ error' = Null
            /\ data' = Null
            /\ userProfile' = Null
            /\ inv' = [inv EXCEPT ![i] =
                         [Started(u) EXCEPT
                            !.pre = <<topRepos, repoStats, repoCount>>,
                            !.prior = {k \in Calls :
                                         inv[k].result = "succeeded"},
                            !.seen = Returned]]
    /\ UNCHANGED <<topRepos, repoStats, repoCount, variant, quota, source>>

(***************************************************************************)
(* What starts fetchData                                                   *)
(***************************************************************************)
\* useEffect(() => {...}, []): runs once, after the first render, and reads
\* params.get('user') from the page's URL
Mount ==
    /\ ~mounted
    /\ mounted' = TRUE
    /\ \E userParam \in {Null} \cup {Some(u) : u \in Names} :
         IF userParam # Null /\ userParam[1] # <<>>
         THEN /\ username' = userParam[1]
              /\ fetchData(calls + 1, userParam)
         ELSE UNCHANGED <<username, loading, error, data, userProfile,
                          topRepos, repoStats, repoCount, variant, inv, calls,
                          quota, source>>

\* onChange of the input field; the environment types only while it may still
\* start an invocation (what is typed later reaches no fetchData)
SetUsername ==
    /\ mounted
    /\ calls < quota
    /\ \E u \in Names : u # username /\ username' = u
    /\ UNCHANGED <<loading, error, data, userProfile, topRepos, repoStats,
                   repoCount, variant, mounted, inv, calls, quota, source>>

\* onSubmit of the form; its button is disabled while loading
handleSearch ==
    /\ mounted
    /\ calls < quota
    /\ ~loading
    /\ fetchData(calls + 1, Some(username))
    /\ UNCHANGED <<username, mounted>>

\* onClick of "Try example: torvalds"
handleExample ==
    /\ mounted
    /\ calls < quota
    /\ username' = Torvalds
    /\ fetchData(calls + 1, Some(Torvalds))
    /\ UNCHANGED mounted

(***************************************************************************)
(* fetchData from one await to the next                                    *)
(***************************************************************************)
\* the catch block as mutated: it also shows what was accumulated so far
CaughtShowsPartial(i, frame, msg) ==
    /\ error' = Some(msg)
    /\ loading' = FALSE
    /\ data' = Some(processedData(frame.allRepos))
    /\ inv' = [inv EXCEPT ![i] =
                 [frame EXCEPT !.pc = "returned", !.result = "failed",
                               !.rank = Cardinality(Returned) + 1]]
    /\ UNCHANGED <<topRepos, repoStats>>

\* the catch block as mutated: a fixed text is shown instead of err.message
CaughtAnonymous(i, frame, msg) ==
    /\ error' = Some("Something went wrong.")
    /\ loading' = FALSE
    /\ inv' = [inv EXCEPT ![i] =
                 [frame EXCEPT !.pc = "returned", !.result = "failed",
                               !.rank = Cardinality(Returned) + 1]]
    /\ UNCHANGED <<data, topRepos, repoStats>>

\* the catch block as mutated: there is no finally block
CaughtLeavesLoading(i, frame, msg) ==
    /\ error' = Some(msg)
    /\ inv' = [inv EXCEPT ![i] =
                 [frame EXCEPT !.pc = "returned", !.result = "failed",
                               !.rank = Cardinality(Returned) + 1]]
    /\ UNCHANGED <<loading, data, topRepos, repoStats>>

\* catch (err) { setError(err.message) } finally { setLoading(false) }:
\* nothing else is written on the way out
Caught(i, frame, msg) ==
    /\ error' = Some(msg)
    /\ loading' = FALSE
    /\ inv' = [inv EXCEPT ![i] =
                 [frame EXCEPT !.pc = "returned", !.result = "failed",
                               !.rank = Cardinality(Returned) + 1]]
    /\ UNCHANGED <<data, topRepos, repoStats>>

\* the code after the loop as mutated: an invocation that is no longer the
\* latest one started drops its result instead of writing it
FinishIfLatest(i, frame) ==
    LET all == frame.allRepos
    IN  IF i # calls
        THEN /\ inv' = [inv EXCEPT ![i] =
                          [frame EXCEPT !.pc = "returned",
                                        !.result = "succeeded",
                                        !.rank = Cardinality(Returned) + 1]]
             /\ UNCHANGED <<loading, error, data, topRepos, repoStats,
                            repoCount>>
        ELSE /\ repoCount' = length(all)
             /\ IF length(all) = 0
                THEN Caught(i, frame, MsgNoRepos)
                ELSE IF ~hasLang(all)
                THEN Caught(i, frame, MsgNoLang)
                ELSE /\ IF variant = "rich"
                        THEN /\ repoStats' = repoStatsOf(all)
                             /\ topRepos' = top5Repos(all)
                        ELSE UNCHANGED <<topRepos, repoStats>>
                     /\ data' = Some(processedData(all))
                     /\ loading' = FALSE
                     /\ inv' = [inv EXCEPT ![i] =
                                  [frame EXCEPT !.pc = "returned",
                                                !.result = "succeeded",
                                                !.rank = Cardinality(Returned) + 1]]
                     /\ UNCHANGED error

\* the code after the loop: the count, the two checks, the aggregation
Finish(i, frame) ==
    LET all == frame.allRepos
    IN  /\ repoCount' = length(all)
        /\ IF length(all) = 0
           THEN Caught(i, frame, MsgNoRepos)
           ELSE IF ~hasLang(all)
           THEN Caught(i, frame, MsgNoLang)
           ELSE /\ IF variant = "rich"
                   THEN /\ repoStats' = repoStatsOf(all)
                        /\ topRepos' = top5Repos(all)
                   ELSE UNCHANGED <<topRepos, repoStats>>
                /\ data' = Some(processedData(all))
                /\ loading' = FALSE
                /\ inv' = [inv EXCEPT ![i] =
                             [frame EXCEPT !.pc = "returned",
                                           !.result = "succeeded",
                                           !.rank = Cardinality(Returned) + 1]]
                /\ UNCHANGED error

Rest == <<username, variant, mounted, calls, quota, source>>

\* await fetch(.../users/<user>) resolves
UserFetchResolves(i) ==
    /\ inv[i].pc = "user"
    /\ \E h \in source.heads :
         LET frame == [inv[i] EXCEPT !.heads = Append(@, h)]
         IN  IF IsOk(h.status)
             THEN /\ inv' = [inv EXCEPT ![i] = [frame EXCEPT !.pc = "userJson"]]
                  /\ UNCHANGED <<loading, error, data, topRepos, repoStats>>
             ELSE Caught(i, frame, ClassifyUser(h.status, h.statusText))
    /\ UNCHANGED <<userProfile, repoCount>>
    /\ UNCHANGED Rest

\* await fetch(.../users/<user>) rejects
UserFetchRejects(i) ==
    /\ inv[i].pc = "user"
    /\ \E m \in NetErrors : Caught(i, inv[i], m)
    /\ UNCHANGED <<userProfile, repoCount>>
    /\ UNCHANGED Rest

\* the same continuation as mutated: the richer variant takes the profile
\* request for the first page and starts its loop at page 2
UserJsonResolvesFromTwo(i) ==
    /\ inv[i].pc = "userJson"
    /\ \E p \in Profiles(inv[i].user[1], source) :
         /\ userProfile' = Some(p)
         /\ inv' = [inv EXCEPT ![i] =
                      [@ EXCEPT !.pc = "page", !.profile = Some(p),
                                !.page = 2, !.allRepos = <<>>,
                                !.reqs = Append(@, PageReq(2))]]
    /\ UNCHANGED <<loading, error, data, topRepos, repoStats, repoCount>>
    /\ UNCHANGED Rest

\* await userResponse.json() resolves: the profile is shown and the loop
\* issues its first request
UserJsonResolves(i) ==
    /\ inv[i].pc = "userJson"
    /\ \E p \in Profiles(inv[i].user[1], source) :
         /\ userProfile' = Some(p)
         /\ inv' = [inv EXCEPT ![i] =
                      [@ EXCEPT !.pc = "page", !.profile = Some(p),
                                !.page = 1, !.allRepos = <<>>,
                                !.reqs = Append(@, PageReq(1))]]
    /\ UNCHANGED <<loading, error, data, topRepos, repoStats, repoCount>>
    /\ UNCHANGED Rest

\* await userResponse.json() rejects
UserJsonRejects(i) ==
    /\ inv[i].pc = "userJson"
    /\ \E m \in JsonErrors : Caught(i, inv[i], m)
    /\ UNCHANGED <<userProfile, repoCount>>
    /\ UNCHANGED Rest

\* await fetch(.../repos?per_page=100&sort=updated&page=<page>) resolves
PageFetchResolves(i) ==
    /\ inv[i].pc = "page"
    /\ \E h \in source.heads :
         LET frame == [inv[i] EXCEPT !.heads = Append(@, h)]
         IN  IF IsOk(h.status)
             THEN /\ inv' = [inv EXCEPT ![i] = [frame EXCEPT !.pc = "pageJson"]]
                  /\ UNCHANGED <<loading, error, data, topRepos, repoStats>>
             ELSE Caught(i, frame, ClassifyPage(h.status, h.statusText))
    /\ UNCHANGED <<userProfile, repoCount>>
    /\ UNCHANGED Rest

\* await fetch(.../repos?...) rejects
PageFetchRejects(i) ==
    /\ inv[i].pc = "page"
    /\ \E m \in NetErrors : Caught(i, inv[i], m)
    /\ UNCHANGED <<userProfile, repoCount>>
    /\ UNCHANGED Rest

\* await response.json() resolves: the page is appended, and the loop either
\* issues the next request or ends and the rest of the try block runs
PageJsonResolves(i) ==
    /\ inv[i].pc = "pageJson"
    /\ \E repos \in PagesAt(inv[i].page, source) :
         LET frame == [inv[i] EXCEPT !.allRepos = concat(@, repos),
                                     !.pages = Append(@, repos)]
         IN  IF lastPage(repos, frame.page)
             THEN Finish(i, frame)
             ELSE /\ inv' = [inv EXCEPT ![i] =
                               [frame EXCEPT !.pc = "page",
                                             !.page = @ + 1,
                                             !.reqs = Append(@, PageReq(frame.page + 1))]]
                  /\ UNCHANGED <<loading, error, data, topRepos, repoStats,
                                 repoCount>>
    /\ UNCHANGED userProfile
    /\ UNCHANGED Rest

\* await response.json() rejects
PageJsonRejects(i) ==
    /\ inv[i].pc = "pageJson"
    /\ \E m \in JsonErrors : Caught(i, inv[i], m)
    /\ UNCHANGED <<userProfile, repoCount>>
    /\ UNCHANGED Rest

Next ==
    \/ Mount
    \/ SetUsername
    \/ handleSearch
    \/ handleExample
    \/ \E i \in Calls : UserFetchResolves(i)
    \/ \E i \in Calls : UserFetchRejects(i)
    \/ \E i \in Calls : UserJsonResolves(i)
    \/ \E i \in Calls : UserJsonRejects(i)
    \/ \E i \in Calls : PageFetchResolves(i)
    \/ \E i \in Calls : PageFetchRejects(i)
    \/ \E i \in Calls : PageJsonResolves(i)
    \/ \E i \in Calls : PageJsonRejects(i)

Spec == Init /\ [][Next]_vars

\* the continuations of invocation i: what runs when the response to its
\* outstanding request, or the body of that response, arrives
Respond(i) ==
    \/ UserFetchRejects(i)
    \/ UserFetchResolves(i)
    \/ UserJsonRejects(i)
    \/ UserJsonResolves(i)
    \/ PageFetchRejects(i)
    \/ PageFetchResolves(i)
    \/ PageJsonRejects(i)
    \/ PageJsonResolves(i)

\* one invocation, against a source of plain pages that never runs out of
\* full ones
InitLive ==
    /\ InitState
    /\ quota = 1
    /\ source = [depth |-> maxPages + 1, rich |-> 0,
                 heads |-> Heads, followers |-> {0, 7}]

\* every request is eventually answered
SpecLive == InitLive /\ [][Next]_vars /\ \A i \in Calls : WF_vars(Respond(i))

\* up to MaxCalls invocations, which may overlap, against a source that holds
\* ShallowDepth full pages
InitOverlap ==
    /\ InitState
    /\ quota = MaxCalls
    /\ source = [depth |-> ShallowDepth, rich |-> 0,
                 heads |-> PlainHeads, followers |-> {7}]

SpecOverlap == InitOverlap /\ [][Next]_vars

(***************************************************************************)
(* Vocabulary of the properties                                            *)
(***************************************************************************)
Began == {i \in Calls : inv[i].pc # "idle"}

PageReqCount(i) ==
    Cardinality({k \in DOMAIN inv[i].reqs : inv[i].reqs[k].kind = "page"})

\* the page requests of i are those for pages 1..n, in this order
PageReqsAre(i, n) ==
    LET r == inv[i].reqs
        off == Len(r) - n
    IN  /\ off \in {0, 1}
        /\ off = 1 => r[1].kind = "user"
        /\ \A k \in 1..n : r[off + k] = PageReq(k)

NotSuccess(h) == h.status < 200 \/ h.status > 299

\* every request of i was answered with a success status and a decoded body,
\* so that the pagination loop has ended
LoopDone(i) ==
    /\ inv[i].pc = "returned"
    /\ PageReqCount(i) >= 1
    /\ Len(inv[i].pages) = PageReqCount(i)

RECURSIVE Flatten(_)
Flatten(ps) == IF ps = <<>> THEN <<>> ELSE Head(ps) \o Flatten(Tail(ps))

\* a record carries a language: the field is a non-empty string
Bears(r) == r.language # Null /\ r.language # Some("")

AnyBears(ps) ==
    \E k \in DOMAIN ps : \E j \in DOMAIN ps[k] : Bears(ps[k][j].rec)

\* the error table of the Error Classifier
Classified(h) ==
    CASE h.status = 404 -> "User not found. Check the username."
      [] h.status = 403 ->
           "API Rate limit exceeded. Wait a while or add a GitHub Token below."
      [] h.status = 401 -> "Invalid GitHub Token."
      [] OTHER -> "GitHub API Error: " \o ToString(h.status) \o " " \o h.statusText

Blank(u) == u = Null \/ \A k \in DOMAIN u[1] : u[1][k] = " "

(***************************************************************************)
(* C1.  An invocation issues at most maxPages = 10 page requests and its   *)
(* page counter never exceeds 10, whatever the source answers.             *)
(***************************************************************************)
C1_PageCap ==
    \A i \in Calls :
        /\ inv[i].page <= maxPages
        /\ PageReqCount(i) <= maxPages
        /\ \A k \in DOMAIN inv[i].reqs : inv[i].reqs[k].page <= maxPages

\* the cap ended the loop: ten requests, the tenth page full
C1_Witness ==
    \E i \in Calls :
        /\ LoopDone(i)
        /\ PageReqCount(i) = maxPages
        /\ length(inv[i].pages[maxPages]) >= perPage

(***************************************************************************)
(* C2.  As claimed: for any source the number of accumulated items, and    *)
(* repoCount, never exceed pageSize * maxPages = 1000.                     *)
(***************************************************************************)
C2_Original ==
    /\ repoCount <= perPage * maxPages
    /\ \A i \in Calls : length(inv[i].allRepos) <= perPage * maxPages

(***************************************************************************)
(* C2, amended.  When no page the source returns holds more than pageSize  *)
(* items, the number of accumulated items, and repoCount, never exceed     *)
(* pageSize * maxPages = 1000.                                             *)
(***************************************************************************)
C2_ItemCap ==
    (\A i \in Calls : \A k \in DOMAIN inv[i].pages :
        length(inv[i].pages[k]) <= perPage)
    => /\ repoCount <= perPage * maxPages
       /\ \A i \in Calls : length(inv[i].allRepos) <= perPage * maxPages

\* ten full pages were accumulated and counted
C2_Witness ==
    \E i \in Calls :
        /\ LoopDone(i)
        /\ \A k \in DOMAIN inv[i].pages : length(inv[i].pages[k]) <= perPage
        /\ length(inv[i].allRepos) = perPage * maxPages
        /\ repoCount = perPage * maxPages

(***************************************************************************)
(* C3.  As claimed: when page k is the first page with fewer than pageSize *)
(* items, the invocation issues exactly the requests for pages 1..k,       *)
(* accumulates exactly the items of pages 1..k, and their number is        *)
(* (k-1)*pageSize plus the size of page k.                                 *)
(***************************************************************************)
C3_Original ==
    \A i \in Calls : \A k \in DOMAIN inv[i].pages :
        length(inv[i].pages[k]) < perPage
        => /\ inv[i].pc = "returned"
           /\ Len(inv[i].pages) = k
           /\ PageReqCount(i) = k
           /\ PageReqsAre(i, k)
           /\ inv[i].allRepos = Flatten(inv[i].pages)
           /\ length(inv[i].allRepos) =
                  (k - 1) * perPage + length(inv[i].pages[k])

(***************************************************************************)
(* C3, amended.  When page k is the first page with fewer than pageSize    *)
(* items, the invocation issues exactly the requests for pages 1..k and    *)
(* accumulates exactly the items of pages 1..k; their number is            *)
(* (k-1)*pageSize plus the size of page k when pages 1..k-1 hold exactly   *)
(* pageSize items each.                                                    *)
(***************************************************************************)
C3_StopsAtShortPage ==
    \A i \in Calls : \A k \in DOMAIN inv[i].pages :
        length(inv[i].pages[k]) < perPage
        => /\ inv[i].pc = "returned"
           /\ Len(inv[i].pages) = k
           /\ PageReqCount(i) = k
           /\ PageReqsAre(i, k)
           /\ inv[i].allRepos = Flatten(inv[i].pages)
           /\ (\A m \in 1..(k - 1) : length(inv[i].pages[m]) = perPage)
              => length(inv[i].allRepos) =
                     (k - 1) * perPage + length(inv[i].pages[k])

\* three full pages and a fourth of pageSize - 1 items: four requests
C3_Witness ==
    \E i \in Calls :
        /\ inv[i].pc = "returned"
        /\ Len(inv[i].pages) = 4
        /\ \A m \in 1..3 : length(inv[i].pages[m]) = perPage
        /\ length(inv[i].pages[4]) = perPage - 1
        /\ PageReqCount(i) = 4
        /\ length(inv[i].allRepos) = 3 * perPage + (perPage - 1)

(***************************************************************************)
(* C4.  Against a source that answers every page request with a full page  *)
(* (exactly pageSize items), the loop ends with the tenth page and not     *)
(* before: exactly maxPages requests, maxPages * pageSize items.           *)
(***************************************************************************)
C4_FullPagesStopAtCap ==
    \A i \in Calls :
        (\A k \in DOMAIN inv[i].pages : length(inv[i].pages[k]) = perPage)
        => /\ LoopDone(i) <=> Len(inv[i].pages) = maxPages
           /\ Len(inv[i].pages) = maxPages
              => /\ PageReqCount(i) = maxPages
                 /\ PageReqsAre(i, maxPages)
                 /\ length(inv[i].allRepos) = maxPages * perPage

C4_Witness ==
    \E i \in Calls :
        /\ \A k \in DOMAIN inv[i].pages : length(inv[i].pages[k]) = perPage
        /\ Len(inv[i].pages) = maxPages
        /\ inv[i].result = "succeeded"
        /\ repoCount = maxPages * perPage

(***************************************************************************)
(* C5.  When a page request is answered with a status that is not a        *)
(* success, the invocation fails and what the earlier pages brought is     *)
(* dropped: data stays null, and topRepos, repoStats and repoCount are     *)
(* what they were when the invocation began.                               *)
(***************************************************************************)
C5_PageFailureDiscards ==
    \A i \in Calls :
        LET n == Len(inv[i].heads)
        IN  (n > 0 /\ NotSuccess(inv[i].heads[n]) /\ inv[i].reqs[n].kind = "page")
            => /\ inv[i].pc = "returned"
               /\ inv[i].result = "failed"
               /\ error # Null
               /\ data = Null
               /\ <<topRepos, repoStats, repoCount>> = inv[i].pre

\* a 403 on page 2, after a page 1 whose records carry languages
C5_Witness ==
    \E i \in Calls :
        /\ Len(inv[i].pages) = 1
        /\ AnyBears(inv[i].pages)
        /\ inv[i].reqs[Len(inv[i].reqs)] = PageReq(2)
        /\ Len(inv[i].heads) = Len(inv[i].reqs)
        /\ inv[i].heads[Len(inv[i].heads)].status = 403
        /\ inv[i].result = "failed"
        /\ data = Null

(***************************************************************************)
(* C6.  A response that is not a success is classified by the same table   *)
(* whether it answers the profile request or a page request (404, 403,     *)
(* 401, and the status code with its text otherwise), and error holds      *)
(* exactly that message.                                                   *)
(***************************************************************************)
C6_UniformClassification ==
    \A i \in Calls :
        LET n == Len(inv[i].heads)
        IN  (n > 0 /\ NotSuccess(inv[i].heads[n]))
            => /\ inv[i].result = "failed"
               /\ error = Some(Classified(inv[i].heads[n]))

\* a 401 answering a page request of the richer variant
C6_Witness ==
    \E i \in Calls :
        LET n == Len(inv[i].heads)
        IN  /\ variant = "rich"
            /\ n > 1
            /\ inv[i].reqs[n].kind = "page"
            /\ inv[i].heads[n].status = 401
            /\ error = Some("Invalid GitHub Token.")

(***************************************************************************)
(* C7.  Once a request of an invocation has been answered with a status    *)
(* that is not a success, that request is the invocation's last: no retry, *)
(* no later page, and no page request at all after a failed profile        *)
(* request.                                                                *)
(***************************************************************************)
C7_NoRequestAfterFailure ==
    \A i \in Calls : \A k \in DOMAIN inv[i].heads :
        NotSuccess(inv[i].heads[k])
        => /\ Len(inv[i].heads) = k
           /\ Len(inv[i].reqs) = k
           /\ inv[i].pc = "returned"
           /\ inv[i].reqs[k].kind = "user" => PageReqCount(i) = 0

\* a 404 on the profile request: one request in all
C7_Witness ==
    \E i \in Calls :
        /\ inv[i].reqs = <<UserReq>>
        /\ Len(inv[i].heads) = 1
        /\ inv[i].heads[1].status = 404
        /\ inv[i].pc = "returned"

(***************************************************************************)
(* C8.  A userId that is absent, empty or only whitespace makes fetchData  *)
(* fail with the validation message without any request: neither the       *)
(* profile request nor a page request.                                     *)
(***************************************************************************)
C8_ValidationBeforeRequests ==
    \A i \in Began :
        Blank(inv[i].user)
        => /\ inv[i].reqs = <<>>
           /\ inv[i].heads = <<>>
           /\ inv[i].pc = "returned"
           /\ inv[i].result = "invalid"
           /\ error = Some("Please enter a GitHub username first.")
           /\ ~loading

\* fetchData(" ")
C8_Witness ==
    \E i \in Began :
        /\ inv[i].user = Some(<<" ">>)
        /\ inv[i].result = "invalid"
        /\ inv[i].reqs = <<>>

(***************************************************************************)
(* C9.  After a pagination in which every request succeeded: an empty      *)
(* accumulated sequence fails with EmptyResult, a non-empty one without    *)
(* any language-bearing record fails with NoLanguageData; neither writes   *)
(* languages, stats or top repos, and the empty check comes first.         *)
(***************************************************************************)
C9_EmptyThenNoLanguage ==
    \A i \in Calls :
        LoopDone(i) /\ ~AnyBears(inv[i].pages)
        => /\ inv[i].result = "failed"
           /\ data = Null
           /\ <<topRepos, repoStats>> = <<inv[i].pre[1], inv[i].pre[2]>>
           /\ error = IF length(Flatten(inv[i].pages)) = 0
                      THEN Some("No public repositories found for this user.")
                      ELSE Some("Repositories found, but no language data detected.")

\* records were found, none with a language
C9_Witness ==
    \E i \in Calls :
        /\ LoopDone(i)
        /\ length(Flatten(inv[i].pages)) > perPage
        /\ ~AnyBears(inv[i].pages)
        /\ error = Some("Repositories found, but no language data detected.")

(***************************************************************************)
(* C10.  An invocation running alone whose requests all succeed and bring  *)
(* at least one language-bearing record ends with error = null, loading =  *)
(* false, the fetched profile, repoCount the number of accumulated items,  *)
(* and languages, stats and topRepos the aggregation of those items.       *)
(***************************************************************************)
C10_SuccessState ==
    \A i \in Calls :
        LoopDone(i) /\ AnyBears(inv[i].pages)
        => LET items == Flatten(inv[i].pages)
           IN  /\ inv[i].result = "succeeded"
               /\ error = Null
               /\ ~loading
               /\ repoCount = length(items)
               /\ data = Some(processedData(items))
               /\ variant = "rich"
                  => /\ inv[i].profile # Null
                     /\ userProfile = inv[i].profile
                     /\ repoStats = repoStatsOf(items)
                     /\ topRepos = top5Repos(items)

\* two pages aggregated in the richer variant
C10_Witness ==
    \E i \in Calls :
        /\ variant = "rich"
        /\ inv[i].result = "succeeded"
        /\ Len(inv[i].pages) = 2
        /\ Len(data[1]) = 2
        /\ Len(topRepos) = topCount
        /\ userProfile # Null

(***************************************************************************)
(* Vocabulary of the properties on several invocations                     *)
(***************************************************************************)
InFlight == {i \in Calls : inv[i].pc \notin {"idle", "returned"}}

\* the invocation that returned last
LastReturned ==
    CHOOSE i \in Returned : \A k \in Returned : inv[k].rank <= inv[i].rank

NoStats == [totalStars |-> 0, totalForks |-> 0, avgStars |-> 0]

(***************************************************************************)
(* C11.  loading is true only between an invocation and its terminal       *)
(* outcome: whenever no invocation is in flight (none started yet, or all  *)
(* of them returned, a validation failure included), loading is false.     *)
(***************************************************************************)
C11_LoadingOnlyInFlight == InFlight = {} => ~loading

\* two invocations have returned, one of them by a failure
C11_Witness ==
    /\ InFlight = {}
    /\ Cardinality(Returned) >= 2
    /\ \E i \in Returned : inv[i].result = "failed"
    /\ \E i \in Returned : inv[i].result = "succeeded"
    /\ ~loading

(***************************************************************************)
(* C12.  As claimed: once an invocation that follows an earlier successful *)
(* one (and that issued requests of its own) has reached its terminal      *)
(* outcome, the state holds no derived structure of the earlier one: data, *)
(* userProfile, topRepos, repoStats and repoCount are each either empty or *)
(* what this invocation computed.                                          *)
(***************************************************************************)
C12_NothingPersists ==
    \A j \in Returned :
        (/\ inv[j].prior # {}
         /\ Began = inv[j].prior \cup {j}
         /\ Len(inv[j].reqs) >= 1)
        => LET items == Flatten(inv[j].pages)
               won == inv[j].result = "succeeded"
           IN  /\ data = Null \/ (won /\ data = Some(processedData(items)))
               /\ userProfile = Null \/ userProfile = inv[j].profile
               /\ repoCount = 0 \/ (LoopDone(j) /\ repoCount = length(items))
               /\ topRepos = <<>> \/ (won /\ topRepos = top5Repos(items))
               /\ repoStats = NoStats \/ (won /\ repoStats = repoStatsOf(items))

(***************************************************************************)
(* C13.  As claimed: an invocation that fails, at whatever phase, leaves   *)
(* nothing of what it accumulated in the state: not the profile it         *)
(* fetched, not the number of items it accumulated, nothing derived from   *)
(* its items.                                                              *)
(***************************************************************************)
C13_FailureDiscardsAll ==
    \A i \in Calls :
        inv[i].result = "failed"
        => /\ inv[i].profile # Null => userProfile # inv[i].profile
           /\ length(inv[i].allRepos) > 0 => repoCount # length(inv[i].allRepos)
           /\ data = Null
           /\ <<topRepos, repoStats>> = <<inv[i].pre[1], inv[i].pre[2]>>

(***************************************************************************)
(* C14.  Overlapping invocations are neither deduplicated nor cancelled:   *)
(* every invocation that passes validation issues its own requests, and    *)
(* once all have returned the state shows the outcome of the one that      *)
(* returned last, whichever was started first.                             *)
(***************************************************************************)
C14_LastWriteWins ==
    /\ \A i \in Began : ~Blank(inv[i].user) => Len(inv[i].reqs) >= 1
    /\ (Returned # {} /\ InFlight = {})
       => LET l == LastReturned
              items == Flatten(inv[l].pages)
          IN  /\ inv[l].result = "succeeded"
                 => /\ data = Some(processedData(items))
                    /\ repoCount = length(items)
                    /\ variant = "rich"
                       => /\ topRepos = top5Repos(items)
                          /\ repoStats = repoStatsOf(items)
              /\ inv[l].result = "failed" => error # Null
              /\ inv[l].result = "invalid"
                 => error = Some("Please enter a GitHub username first.")
              /\ ~loading

\* the invocation started first returned last and replaced what the newer
\* one had written
C14_Witness ==
    \E i, j \in Returned :
        /\ i < j
        /\ InFlight = {}
        /\ inv[i].rank > inv[j].rank
        /\ inv[i].result = "succeeded"
        /\ inv[j].result = "succeeded"
        /\ Len(inv[i].reqs) >= 2 /\ Len(inv[j].reqs) >= 2
        /\ processedData(Flatten(inv[i].pages))
             # processedData(Flatten(inv[j].pages))
        /\ data = Some(processedData(Flatten(inv[i].pages)))

(***************************************************************************)
(* Vocabulary of the properties on the aggregation                         *)
(***************************************************************************)
Succeeded == {i \in Calls : inv[i].result = "succeeded"}

\* the records invocation i accumulated, as one sequence of runs
Items(i) == Flatten(inv[i].pages)

\* the number of records in the runs whose indices are in S
RECURSIVE SumN(_, _)
SumN(runs, S) ==
    IF S = {} THEN 0
    ELSE LET k == CHOOSE k \in S : TRUE
         IN  runs[k].n + SumN(runs, S \ {k})

\* the number of records whose language field is l
CountWith(runs, l) ==
    SumN(runs, {k \in DOMAIN runs : runs[k].rec.language = l})

LangsOf(runs) == {runs[k].rec.language : k \in DOMAIN runs}

RECURSIVE SumValue(_)
SumValue(list) ==
    IF list = <<>> THEN 0 ELSE Head(list).value + SumValue(Tail(list))

EntriesFor(list, l) == {k \in DOMAIN list : Some(list[k].name) = l}

\* the place where language l is first seen
FirstSeen(runs, l) ==
    CHOOSE k \in DOMAIN runs :
        /\ runs[k].rec.language = l
        /\ \A m \in 1..(k - 1) : runs[m].rec.language # l

(***************************************************************************)
(* C15.  As claimed: the language list has exactly one entry per distinct  *)
(* non-null language of the records, each entry's value is the number of   *)
(* records with that language (at least 1), and the values add up to the   *)
(* number of records with a non-null language.                             *)
(***************************************************************************)
C15_Original ==
    \A i \in Succeeded :
        /\ data # Null
        /\ \A l \in LangsOf(Items(i)) \ {Null} :
               Cardinality(EntriesFor(data[1], l)) = 1
        /\ \A k \in DOMAIN data[1] :
               /\ data[1][k].value = CountWith(Items(i), Some(data[1][k].name))
               /\ data[1][k].value >= 1
        /\ SumValue(data[1])
             = SumN(Items(i), {k \in DOMAIN Items(i) :
                                  Items(i)[k].rec.language # Null})

(***************************************************************************)
(* C15, amended.  The language list has exactly one entry per distinct     *)
(* language that is neither null nor the empty string, and no other entry; *)
(* each entry's value is the number of records with that language (at      *)
(* least 1), and the values add up to the number of records whose language *)
(* is neither null nor empty.                                              *)
(***************************************************************************)
C15_LanguageCounts ==
    \A i \in Succeeded :
        /\ data # Null
        /\ \A l \in LangsOf(Items(i)) \ {Null, Some("")} :
               Cardinality(EntriesFor(data[1], l)) = 1
        /\ \A k \in DOMAIN data[1] :
               /\ Some(data[1][k].name) \in LangsOf(Items(i)) \ {Some("")}
               /\ data[1][k].value = CountWith(Items(i), Some(data[1][k].name))
               /\ data[1][k].value >= 1
        /\ SumValue(data[1])
             = SumN(Items(i), {k \in DOMAIN Items(i) :
                                  Bears(Items(i)[k].rec)})

\* two languages were counted, one of them many times, next to a record
\* whose language is the empty string
C15_Witness ==
    \E i \in Succeeded :
        /\ Some("") \in LangsOf(Items(i))
        /\ data # Null
        /\ Len(data[1]) = 2
        /\ data[1][1].value >= perPage - 1
        /\ data[1][2].value = 1

Count(v) == IF v = Absent THEN 0 ELSE v

Stars(runs, k) == Count(runs[k].rec.stargazers_count)

\* the number of records that a stable descending sort by stars puts in
\* front of the records of run k
Before(runs, k) ==
    SumN(runs, {m \in DOMAIN runs :
                   \/ Stars(runs, m) > Stars(runs, k)
                   \/ Stars(runs, m) = Stars(runs, k) /\ m < k})

Min(a, b) == IF a < b THEN a ELSE b

RECURSIVE SumStars(_, _)
SumStars(runs, S) ==
    IF S = {} THEN 0
    ELSE LET k == CHOOSE k \in S : TRUE
         IN  runs[k].n * Stars(runs, k) + SumStars(runs, S \ {k})

RECURSIVE SumForks(_, _)
SumForks(runs, S) ==
    IF S = {} THEN 0
    ELSE LET k == CHOOSE k \in S : TRUE
         IN  runs[k].n * Count(runs[k].rec.forks_count)
             + SumForks(runs, S \ {k})

(***************************************************************************)
(* C17.  topRepos has min(5, number of records) entries; its p-th entry is *)
(* the record that stands at place p when the accumulated records are      *)
(* ordered by stars, descending, a missing star count being 0 and records  *)
(* of equal stars keeping their input order.  (Hence it is sorted, holds   *)
(* the records of greatest star counts, and is stable.)                    *)
(***************************************************************************)
C17_TopFive ==
    \A i \in Succeeded :
        variant = "rich"
        => LET runs == Items(i)
           IN  /\ Len(topRepos) = Min(5, SumN(runs, DOMAIN runs))
               /\ \A p \in DOMAIN topRepos :
                      \E k \in DOMAIN runs :
                          /\ Before(runs, k) < p
                          /\ p <= Before(runs, k) + runs[k].n
                          /\ topRepos[p].name = runs[k].rec.name
                          /\ topRepos[p].stars = runs[k].rec.stargazers_count
                          /\ topRepos[p].forks = runs[k].rec.forks_count
                          /\ topRepos[p].language = runs[k].rec.language
               /\ \A a, b \in DOMAIN topRepos :
                      a < b => Count(topRepos[a].stars) >= Count(topRepos[b].stars)

\* of 102 records five are kept: two of equal stars from the second page, in
\* their input order, in front of records of the first page
C17_Witness ==
    \E i \in Succeeded :
        /\ variant = "rich"
        /\ length(inv[i].allRepos) > 5
        /\ Len(topRepos) = 5
        /\ topRepos[1].name = "eps"
        /\ topRepos[2].name = "alpha"
        /\ topRepos[3].name = "gamma"

(***************************************************************************)
(* C18.  Whenever the stats are computed, at least one record has been     *)
(* accumulated; totalStars and totalForks are the sums of stargazers_count *)
(* and forks_count over all accumulated records, a missing value being 0;  *)
(* avgStars is totalStars / repoCount rounded to the nearest integer,      *)
(* halves upwards; all three are non-negative integers.                    *)
(***************************************************************************)
C18_Stats ==
    \A i \in Succeeded :
        /\ repoCount >= 1
        /\ repoCount = SumN(Items(i), DOMAIN Items(i))
        /\ variant = "rich"
           => /\ repoStats.totalStars = SumStars(Items(i), DOMAIN Items(i))
              /\ repoStats.totalForks = SumForks(Items(i), DOMAIN Items(i))
              /\ 2 * repoStats.avgStars * repoCount - repoCount
                   <= 2 * repoStats.totalStars
              /\ 2 * repoStats.totalStars
                   < 2 * repoStats.avgStars * repoCount + repoCount
              /\ repoStats.totalStars \in Nat
              /\ repoStats.totalForks \in Nat
              /\ repoStats.avgStars \in Nat

\* the quotient is exactly halfway between two integers, and a record has
\* no fork count
C18_Witness ==
    \E i \in Succeeded :
        /\ variant = "rich"
        /\ 2 * repoStats.totalStars = (2 * repoStats.avgStars - 1) * repoCount
        /\ \E k \in DOMAIN Items(i) : Items(i)[k].rec.forks_count = Absent
        /\ repoStats.totalForks = 0

(***************************************************************************)
(* C19.  There is no timeout.  When every request is eventually answered,  *)
(* an invocation in flight eventually returns, with loading false.  And    *)
(* nothing but a response ends the wait: an invocation that is waiting for *)
(* a response returns only in a step that receives a response head or a    *)
(* network error, one that is waiting for a body only in a step that       *)
(* decodes the body or fails to, and loading becomes false only in a step  *)
(* in which an invocation returns.                                         *)
(***************************************************************************)
C19_NoTimeout ==
    /\ \A i \in Calls :
           (inv[i].pc \notin {"idle", "returned"})
           ~> (inv[i].pc = "returned" /\ ~loading)
    /\ [][/\ \A i \in Calls :
                (inv[i].pc \in {"user", "page"} /\ inv'[i].pc = "returned")
                => \/ Len(inv'[i].heads) = Len(inv[i].heads) + 1
                   \/ error' \in {Some(m) : m \in NetErrors}
          /\ \A i \in Calls :
                (inv[i].pc \in {"userJson", "pageJson"}
                 /\ inv'[i].pc = "returned")
                => \/ Len(inv'[i].pages) = Len(inv[i].pages) + 1
                   \/ error' \in {Some(m) : m \in JsonErrors}
          /\ (loading /\ ~loading')
             => \E i \in Calls :
                    inv[i].pc # "returned" /\ inv'[i].pc = "returned"]_vars

\* an invocation has returned after four requests were answered
C19_Witness ==
    \E i \in Calls :
        /\ inv[i].pc = "returned"
        /\ Len(inv[i].reqs) = 4
        /\ Len(inv[i].heads) = 4
        /\ ~loading

(***************************************************************************)
(* C20.  Within one invocation the requests are sequential: the profile    *)
(* request (where there is one) comes first; the page requests are those   *)
(* for pages 1, 2, ... in this order, none skipped or repeated; page 1 is  *)
(* requested only once the profile has been received and decoded, page     *)
(* p + 1 only once page p has been answered with a success status and a    *)
(* body of at least per_page records; and at most one request is without   *)
(* an answer, which is the one the invocation is waiting for.              *)
(***************************************************************************)
C20_Sequential ==
    \A i \in Began :
        LET r == inv[i].reqs
            off == Len(r) - PageReqCount(i)
        IN  /\ PageReqsAre(i, PageReqCount(i))
            /\ (variant = "rich" /\ r # <<>>) => r[1] = UserReq
            /\ variant = "simple" => off = 0
            /\ Len(r) - Len(inv[i].heads) \in {0, 1}
            /\ inv[i].pc \in {"user", "page"}
               => Len(r) = Len(inv[i].heads) + 1
            /\ inv[i].pc \in {"userJson", "pageJson"}
               => Len(r) = Len(inv[i].heads)
            /\ \A k \in DOMAIN r :
                   k >= 2 => /\ k - 1 \in DOMAIN inv[i].heads
                             /\ ~NotSuccess(inv[i].heads[k - 1])
            /\ (off = 1 /\ Len(r) >= 2) => inv[i].profile # Null
            /\ \A p \in 1..Len(inv[i].pages) :
                   PageReq(p + 1) \in {r[k] : k \in DOMAIN r}
                   => length(inv[i].pages[p]) >= perPage
            /\ \A k \in DOMAIN r :
                   (r[k].kind = "page" /\ r[k].page >= 2)
                   => Len(inv[i].pages) >= r[k].page - 1

\* the fourth request, for page 3, is the only one without an answer
C20_Witness ==
    \E i \in Began :
        /\ inv[i].reqs = <<UserReq, PageReq(1), PageReq(2), PageReq(3)>>
        /\ inv[i].pc = "page"
        /\ Len(inv[i].heads) = 3
        /\ Len(inv[i].pages) = 2

(***************************************************************************)
(* C21.  The step that starts an attempt which passes validation sets      *)
(* loading to true and error, data and userProfile to null, together with  *)
(* the attempt's first request; and while one invocation alone is in       *)
(* flight (no other in flight, none returned since it started), loading is *)
(* true, error is null and no result is displayed.                         *)
(***************************************************************************)
C21_ClearedAtStart ==
    /\ [][\A i \in Calls :
             (inv[i].pc = "idle" /\ inv'[i].pc \in {"user", "page"})
             => /\ loading'
                /\ error' = Null
                /\ data' = Null
                /\ userProfile' = Null
                /\ Len(inv'[i].reqs) = 1
                /\ inv'[i].heads = <<>>]_vars
    /\ [](\A i \in Calls :
             (InFlight = {i} /\ Returned = inv[i].seen)
             => loading /\ error = Null /\ data = Null)

\* a second attempt is on its way after a first one had succeeded, and the
\* first one's result is gone
C21_Witness ==
    \E i \in Calls :
        /\ InFlight = {i}
        /\ Returned = inv[i].seen
        /\ inv[i].prior # {}
        /\ Len(inv[i].heads) >= 1
        /\ loading /\ error = Null /\ data = Null

\* the number of records on the pages of ps
RECURSIVE Held(_)
Held(ps) ==
    IF ps = <<>> THEN 0
    ELSE SumN(Head(ps), DOMAIN Head(ps)) + Held(Tail(ps))

(***************************************************************************)
(* C22.  The records handed to the aggregation are the pages decoded so    *)
(* far, one after the other in request order, each as the source sent it:  *)
(* nothing is reordered, dropped or duplicated.  The language list is      *)
(* computed on that order (equal counts stand in the order of first        *)
(* occurrence in it, whatever the later sort by stars does), and the count *)
(* and the totals cover every record of it.                                *)
(***************************************************************************)
C22_ConcatenationInOrder ==
    \A i \in Began :
        /\ inv[i].allRepos = Flatten(inv[i].pages)
        /\ SumN(inv[i].allRepos, DOMAIN inv[i].allRepos) = Held(inv[i].pages)
        /\ Len(inv[i].pages) <= PageReqCount(i)
        /\ \A p \in DOMAIN inv[i].pages :
               inv[i].pages[p] \in PagesAt(p, source)
        /\ inv[i].result = "succeeded"
           => /\ repoCount = Held(inv[i].pages)
              /\ data # Null
              /\ \A k \in DOMAIN data[1] :
                     data[1][k].value
                       = CountWith(Flatten(inv[i].pages), Some(data[1][k].name))
              /\ \A a, b \in DOMAIN data[1] :
                     (a < b /\ data[1][a].value = data[1][b].value)
                     => FirstSeen(Flatten(inv[i].pages), Some(data[1][a].name))
                          < FirstSeen(Flatten(inv[i].pages), Some(data[1][b].name))
              /\ variant = "rich"
                 => repoStats.totalStars
                      = SumStars(Flatten(inv[i].pages),
                                 DOMAIN Flatten(inv[i].pages))

\* two pages; the languages of the second page are counted once each and
\* listed in page order, while the sort by stars puts them the other way
C22_Witness ==
    \E i \in Succeeded :
        /\ variant = "rich"
        /\ Len(inv[i].pages) = 2
        /\ data = Some(<<[name |-> "Go", value |-> 1],
                         [name |-> "Rust", value |-> 1]>>)
        /\ topRepos[1].name = "beta"
        /\ topRepos[2].name = "alpha"

\* the invocation whose result is displayed: the one that succeeded last
DataWriter ==
    CHOOSE i \in Succeeded : \A k \in Succeeded : inv[k].rank <= inv[i].rank

(***************************************************************************)
(* C23.  As claimed: in every reachable state, overlapping invocations     *)
(* included, loading is true whenever an invocation that passed validation *)
(* has not yet returned.                                                   *)
(***************************************************************************)
C23_LoadingWhileAnyInFlight == InFlight # {} => loading

(***************************************************************************)
(* C24.  As claimed: in every reachable state error and data are never     *)
(* both non-null.                                                          *)
(***************************************************************************)
C24_ErrorExcludesData == error # Null => data = Null

(***************************************************************************)
(* C25.  As claimed: whenever data and userProfile are both non-null, the  *)
(* profile is the one fetched by the invocation that wrote data, for the   *)
(* user that invocation was called with.                                   *)
(***************************************************************************)
C25_ProfileMatchesData ==
    (data # Null /\ userProfile # Null)
    => /\ userProfile = inv[DataWriter].profile
       /\ userProfile[1].login = inv[DataWriter].user[1]

(***************************************************************************)
(* C26.  As claimed: whenever data is non-null, repoCount, repoStats and   *)
(* topRepos are those of the invocation that wrote data; repoCount is the  *)
(* number of records the displayed language list was computed from.        *)
(***************************************************************************)
C26_CountMatchesData ==
    data # Null
    => /\ data = Some(processedData(Items(DataWriter)))
       /\ repoCount = SumN(Items(DataWriter), DOMAIN Items(DataWriter))
       /\ variant = "rich"
          => /\ topRepos = top5Repos(Items(DataWriter))
             /\ repoStats = repoStatsOf(Items(DataWriter))

(***************************************************************************)
(* Vocabulary of the comparison of the two variants: what an invocation    *)
(* saw of its page requests, the profile request left out                  *)
(***************************************************************************)
\* 1 where the invocation's first request was the profile request
ProfileReqs(i) == Len(inv[i].reqs) - PageReqCount(i)

PageHeads(i) ==
    [k \in 1..(Len(inv[i].heads) - ProfileReqs(i)) |->
        inv[i].heads[k + ProfileReqs(i)]]

\* the number of page requests that the decoded pages call for
PageReqsDue(ps) ==
    IF ps = <<>> THEN 1
    ELSE IF length(ps[Len(ps)]) >= perPage /\ Len(ps) < maxPages
    THEN Len(ps) + 1
    ELSE Len(ps)

\* the error a returned invocation leaves, as a set of admissible messages,
\* from its page responses alone
ErrorDue(hs, ps, n) ==
    IF hs # <<>> /\ NotSuccess(hs[Len(hs)]) THEN {Some(Classified(hs[Len(hs)]))}
    ELSE IF Len(hs) < n THEN {Some(m) : m \in NetErrors}
    ELSE IF Len(ps) < Len(hs) THEN {Some(m) : m \in JsonErrors}
    ELSE IF Held(ps) = 0
    THEN {Some("No public repositories found for this user.")}
    ELSE IF ~AnyBears(ps)
    THEN {Some("Repositories found, but no language data detected.")}
    ELSE {Null}

(***************************************************************************)
(* C27.  The two variants agree on their shared state.  In either variant, *)
(* once the loop has begun (in the richer one: the profile request having  *)
(* succeeded), the page requests issued and loading, error, data and       *)
(* repoCount are one and the same function of the responses to the page    *)
(* requests; the variant does not enter into it.                           *)
(***************************************************************************)
C27_VariantsAgree ==
    \A i \in Began :
        PageReqCount(i) >= 1
        => LET hs == PageHeads(i)
               ps == inv[i].pages
               n == PageReqCount(i)
               done == inv[i].pc = "returned"
               due == ErrorDue(hs, ps, n)
           IN  /\ ProfileReqs(i) = (IF variant = "rich" THEN 1 ELSE 0)
               /\ variant = "rich" => inv[i].profile # Null
               /\ PageReqsAre(i, n)
               /\ n = PageReqsDue(ps)
               /\ loading = ~done
               /\ error \in (IF done THEN due ELSE {Null})
               /\ data = (IF done /\ due = {Null}
                          THEN Some(processedData(Flatten(ps))) ELSE Null)
               /\ repoCount = (IF done /\ Len(ps) = n THEN Held(ps) ELSE 0)

\* the richer variant has returned with a result after two pages
C27_Witness ==
    \E i \in Succeeded :
        /\ variant = "rich"
        /\ ProfileReqs(i) = 1
        /\ PageReqCount(i) = 2
        /\ Len(inv[i].pages) = 2
        /\ data # Null
        /\ repoCount > perPage

\* the responses invocation i has decoded: its profile and its pages
Decoded(i) == Len(inv[i].pages) + (IF inv[i].profile # Null THEN 1 ELSE 0)

\* i returned because its last fetch was rejected: that request has no
\* status line
FetchThrew(i) ==
    /\ inv[i].pc = "returned"
    /\ Len(inv[i].reqs) = Len(inv[i].heads) + 1

\* i returned because the body of its last response could not be decoded:
\* the response had a success status and was not decoded
JsonThrew(i) ==
    /\ inv[i].pc = "returned"
    /\ inv[i].heads # <<>>
    /\ Len(inv[i].reqs) = Len(inv[i].heads)
    /\ ~NotSuccess(inv[i].heads[Len(inv[i].heads)])
    /\ Decoded(i) < Len(inv[i].heads)

(***************************************************************************)
(* C28.  An invocation whose fetch is rejected, or whose response body     *)
(* cannot be decoded, returns as a failure: error is the message thrown,   *)
(* data is null and loading is false.  An invocation that has returned     *)
(* issues no request and takes no step any more, and every invocation that *)
(* had set loading to true has set it to false once it has returned.       *)
(***************************************************************************)
C28_ThrownFailures ==
    /\ [](\A i \in Calls :
             /\ FetchThrew(i)
                => /\ inv[i].result = "failed"
                   /\ error \in {Some(m) : m \in NetErrors}
                   /\ data = Null
                   /\ ~loading
             /\ JsonThrew(i)
                => /\ inv[i].result = "failed"
                   /\ error \in {Some(m) : m \in JsonErrors}
                   /\ data = Null
                   /\ ~loading
             /\ (inv[i].pc = "returned" /\ inv[i].reqs # <<>>) => ~loading)
    /\ [][\A i \in Calls : inv[i].pc = "returned" => inv'[i] = inv[i]]_vars

\* the body of the second page could not be decoded
C28_Witness ==
    \E i \in Calls :
        /\ JsonThrew(i)
        /\ Len(inv[i].pages) = 1
        /\ PageReqCount(i) = 2
        /\ error \in {Some(m) : m \in JsonErrors}
        /\ ~loading

====
